---- MODULE Spec2Model ----
(***************************************************************************)
(* Benchmark harness family of the repository: scripts/bench_humaneval.py  *)
(* ("HE"), scripts/bench_mbpp.py ("MBPP"), scripts/bench_swe_lite_dry.py   *)
(* ("SWE") and evals/eval_engine.py ("EVAL").                              *)
(*                                                                         *)
(* Text is modelled as a sequence of tokens.  A token is an atomic piece   *)
(* of the string; the patterns the code searches for (the fence, "python", *)
(* "def", "429", "rate", "limit", a blank, a newline) are tokens or        *)
(* sequences of tokens, so a substring search of the code is a subsequence *)
(* search here.  The grader's output is modelled one character per token.  *)
(***************************************************************************)
EXTENDS Integers, Sequences, FiniteSets, TLC

\* ------------------------------------------------------------------ bounds
MaxTasks == 2          \* tasks sampled for one run
MaxSegs == 3           \* segments concatenated into an extractor input
MaxLats == 5           \* results in a list given to summarize
MaxDs == 3             \* entries of the dataset
MaxIds == 2            \* entries of an explicit id list
MaxRuns == 2           \* runs of the harness that write a report
MaxClock == 3          \* clock ticks
MaxFiles == 5          \* input files of one workflow run
MaxLines == 3          \* lines on the standard input of the mock MCP server

\* ------------------------------------------------------- program constants
RETRY_MAX == 2
BACKOFF_MS == 500
TIMEOUT_S_HE == 120
TIMEOUT_S_MBPP == 120
TIMEOUT_S_SWE == 180

BenchVariants == {"HE", "MBPP", "SWE"}
TIMEOUT_S(v) == CASE v = "HE" -> TIMEOUT_S_HE
                  [] v = "MBPP" -> TIMEOUT_S_MBPP
                  [] OTHER -> TIMEOUT_S_SWE

\* Python's None, for a text field and for a numeric field.
NoneText == <<"<None>">>
NoneNum == -1

\* ------------------------------------------------------------ text helpers
\* the three-backtick fence marker
FENCE_TOK == "<fence>"
WS == {" ", "\n"}

Min(S) == CHOOSE x \in S : \A y \in S : x <= y
Max(S) == CHOOSE x \in S : \A y \in S : x >= y

\* str.lower(), token by token
LowerTok(t) == CASE t = "PYTHON" -> "python"
                 [] t = "Rate" -> "rate"
                 [] t = "LIMIT" -> "limit"
                 [] OTHER -> t
lower(s) == [i \in 1..Len(s) |-> LowerTok(s[i])]

\* str.strip()
strip(s) ==
  LET nz == {i \in 1..Len(s) : s[i] \notin WS}
  IN IF nz = {} THEN <<>> ELSE SubSeq(s, Min(nz), Max(nz))

\* the places where pat occurs in s
Occurrences(s, pat) ==
  {i \in 1..(Len(s) - Len(pat) + 1) : SubSeq(s, i, i + Len(pat) - 1) = pat}

\* pat in s
Contains(s, pat) == Occurrences(s, pat) # {}

\* s.find(pat), 1-based; 0 stands for Python's -1
find(s, pat) == IF Contains(s, pat) THEN Min(Occurrences(s, pat)) ELSE 0

\* s[-1]
Last(q) == q[Len(q)]

\* s[i:], i 1-based
From(s, i) == SubSeq(s, i, Len(s))

\* positions of the fence token in s
Fences(s) == {i \in 1..Len(s) : s[i] = FENCE_TOK}

\* ------------------------------------------------------ regular expressions
\* A match of  FENCE<tag>(.*?)FENCE  : the leftmost fence followed by the tag and
\* by a later fence; group(1) runs lazily to the nearest later fence.
\* ci: re.I (the tag is compared case-insensitively).
TagAt(s, i, tag, ci) ==
  /\ i + 1 <= Len(s)
  /\ s[i] = FENCE_TOK
  /\ IF ci THEN LowerTok(s[i + 1]) = tag ELSE s[i + 1] = tag
  /\ \E j \in Fences(s) : j > i + 1

TaggedSearch(s, tag, ci) ==
  LET starts == {i \in 1..Len(s) : TagAt(s, i, tag, ci)}
  IN IF starts = {}
       THEN [found |-> FALSE, group1 |-> <<>>]
       ELSE LET i == Min(starts)
                j == Min({k \in Fences(s) : k > i + 1})
            IN [found |-> TRUE, group1 |-> SubSeq(s, i + 2, j - 1)]

\* (?!\s*mermaid) at the position after token i: skip the blanks, then "mermaid"
MermaidAhead(s, i) ==
  LET rest == {k \in (i + 1)..Len(s) : s[k] \notin WS}
  IN rest # {} /\ LowerTok(s[Min(rest)]) = "mermaid"

\* FENCE_ANY = FENCE(?!\s*mermaid)(.*?)(?:FENCE)
AnySearch(s) ==
  LET starts == {i \in Fences(s) :
                   /\ ~MermaidAhead(s, i)
                   /\ \E j \in Fences(s) : j > i}
  IN IF starts = {}
       THEN [found |-> FALSE, group1 |-> <<>>]
       ELSE LET i == Min(starts)
                j == Min({k \in Fences(s) : k > i})
            IN [found |-> TRUE, group1 |-> SubSeq(s, i + 1, j - 1)]

FENCE_PY_search(s) == TaggedSearch(s, "python", TRUE)
FENCE_MBPP_search(s) == TaggedSearch(s, "python", FALSE)
FENCE_DIFF_search(s) == TaggedSearch(s, "diff", FALSE)

\* ---------------------------------------------------------------- extractor
\* bench_humaneval.py extract_code
extract_code_HE_AnyFirst(txt) ==
  IF txt = <<>> THEN <<>>
  ELSE IF AnySearch(txt).found THEN strip(AnySearch(txt).group1)
  ELSE IF FENCE_PY_search(txt).found THEN strip(FENCE_PY_search(txt).group1)
  ELSE strip(txt)

extract_code_HE(txt) ==
  IF txt = <<>> THEN <<>>
  ELSE IF FENCE_PY_search(txt).found THEN strip(FENCE_PY_search(txt).group1)
  ELSE IF AnySearch(txt).found THEN strip(AnySearch(txt).group1)
  ELSE LET i1 == find(txt, <<"\n", "def", " ">>)
           i == IF i1 = 0 THEN find(txt, <<"def", " ">>) ELSE i1
       IN IF i # 0 THEN strip(From(txt, i)) ELSE strip(txt)

\* txt.split(FENCE, 1)[1].rsplit(FENCE, 1)[0]
BetweenFirstAndLastFence(txt) ==
  LET first == Min(Fences(txt))
      rest == From(txt, first + 1)
  IN IF Fences(rest) = {} THEN rest
     ELSE SubSeq(rest, 1, Max(Fences(rest)) - 1)

\* bench_mbpp.py extract_code
extract_code_MBPP(txt) ==
  IF FENCE_MBPP_search(txt).found THEN strip(FENCE_MBPP_search(txt).group1)
  ELSE IF Fences(txt) # {} THEN strip(BetweenFirstAndLastFence(txt))
  ELSE strip(txt)

\* bench_swe_lite_dry.py, the diff extraction of the main loop
extract_diff_SWE(raw) ==
  IF FENCE_DIFF_search(raw).found THEN strip(FENCE_DIFF_search(raw).group1)
  ELSE <<>>

Extract(v, txt) == CASE v = "HE" -> extract_code_HE(txt)
                     [] v = "MBPP" -> extract_code_MBPP(txt)
                     [] OTHER -> extract_diff_SWE(txt)

\* ------------------------------------------------------- extractor inputs
\* An input is the concatenation of at most MaxSegs segments: single tokens
\* (so every short token string is an input) and whole fenced blocks.
PyBlock == <<FENCE_TOK, "python", "\n", "x", "\n", FENCE_TOK>>
AnyBlock == <<FENCE_TOK, "\n", "y", "\n", FENCE_TOK>>
DiffBlock == <<FENCE_TOK, "diff", "\n", "d", "\n", FENCE_TOK>>
MermaidBlock == <<FENCE_TOK, "mermaid", "\n", "g", "\n", FENCE_TOK>>
DefLine == <<"def", " ", "z", "\n">>
Segments ==
  {<<t>> : t \in {FENCE_TOK, "python", "PYTHON", "mermaid", " ", "\n", "def", "z"}}
    \cup {PyBlock, AnyBlock, DiffBlock, MermaidBlock, DefLine}

RECURSIVE Texts(_)
Texts(n) ==
  IF n = 0 THEN {<<>>}
  ELSE LET shorter == Texts(n - 1)
       IN shorter \cup {t \o s : t \in shorter, s \in Segments}

VARIABLES xtxt, xvariant, xout, xdone

xvars == <<xtxt, xvariant, xout, xdone>>

\* ------------------------------------------------------------ driver state
VARIABLES
  variant,     \* which script runs: "HE", "MBPP", "SWE" or "EVAL"
  ntasks,      \* len(tasks)
  ti,          \* the task of the for loop, 1..ntasks (0 before the first)
  pc,          \* where the script is: "loop", "call", "wait", "ret",
               \* "grade_wait", "judge_wait", "done", "crashed"
  attempts,    \* vt_ask: attempts
  backoff,     \* vt_ask: backoff, in milliseconds
  spawned,     \* agent processes started by the current vt_ask call
  hist,        \* what each attempt of the current call ended with
  sleeps,      \* the time.sleep(backoff) calls of the current call, in ms
  g,           \* the value vt_ask returned
  results,     \* results
  graded,      \* what the grader saw for the last result (history)
  tmpdirs,     \* temporary directories that exist on disk
  curdir,      \* the directory of the with block (0 outside it)
  procs,       \* child processes alive, in the order they were started
  report,      \* the report file written (NoReport before)
  exit_code,   \* the exit status of the script (NoneNum while it runs)
  spawn_err,   \* subprocess.run raised FileNotFoundError in this run
  fed          \* per task, what the agent's last attempt gave and how the
               \* test run on it went (history)

vars == <<variant, ntasks, ti, pc, attempts, backoff, spawned, hist, sleeps, g,
          results, graded, tmpdirs, curdir, procs, report, exit_code, spawn_err,
          fed>>

\* ------------------------------------ state of the function-level checks
VARIABLES
  svariant,    \* whose summary it is: "HE", "MBPP" or "SWE"
  srs,         \* summarize: the argument results
  sip, sop,    \* summarize: INPUT_PRICE, OUTPUT_PRICE
  ssum,        \* summarize: the value returned
  sdone        \* summarize has run

svars == <<svariant, srs, sip, sop, ssum, sdone>>

VARIABLES
  pvariant,    \* whose sampler it is: "HE", "MBPP" or "SWE"
  pds,         \* sample_tasks: ds, the task ids of the dataset in order
  pN,          \* N (n_requested)
  pids,        \* the explicit id list (HE_IDS, MBPP_IDS); empty when not given
  pshuffled,   \* idxs after rng.shuffle
  ptasks,      \* tasks, by task id
  pidxs,       \* the sorted idxs of the seeded path
  pdone        \* the sampler has run

pvars == <<pvariant, pds, pN, pids, pshuffled, ptasks, pidxs, pdone>>

VARIABLES
  clock,       \* the wall clock, in ticks of 1/TicksPerSecond s
  disk,        \* reports/: for each path written, the run whose report it holds
  runs         \* the runs that have written their report, in order

rvars == <<clock, disk, runs>>

VARIABLES
  wpc,         \* run_workflow: the step it is at
  winput,      \* input_files
  wfs,         \* the files that exist
  wplan,       \* what plan.json holds
  wi,          \* execute_batch: files processed so far
  wresults,    \* results, as run_workflow holds them
  wsteps,      \* the steps run, in order
  wlogs,       \* self.logs
  wret         \* what run_workflow returned

wvars == <<wpc, winput, wfs, wplan, wi, wresults, wsteps, wlogs, wret>>

VARIABLES
  mstdin,      \* mock MCP server: the lines not yet read
  mlines,      \* the lines read so far
  mstdout,     \* the messages sent, in order
  mpc          \* "running", "eof" or "crashed"

mvars == <<mstdin, mlines, mstdout, mpc>>

fvars == <<svars, pvars, rvars, wvars, mvars>>

allvars == <<vars, xvars, fvars>>

\* usage: None, or the object parsed from the agent's output
NoUsage == [present |-> FALSE]
Usage(p, c) == [present |-> TRUE, prompt_tokens |-> p, completion_tokens |-> c]

NoReport == [written |-> FALSE]
NoResult == [timed_out |-> FALSE, latency_s |-> NoneNum, stdout |-> NoneText,
             usage |-> NoUsage, rc |-> NoneNum]
NotGraded == [ran |-> FALSE]

\* --------------------------------------------------- the external processes
\* What one run of the agent binary can end with, other than a timeout.
\* the text  "usage": {"prompt_tokens": 1000, "completion_tokens": 2000}
USAGE_TOK == "<usage>"
AgentExit(rc, out, dt) == [kind |-> "exit", rc |-> rc, out |-> out, dt |-> dt]
AgentExits ==
  {AgentExit(0, PyBlock, 1),
   AgentExit(0, <<>>, 2),
   AgentExit(0, <<"429">>, 1),
   AgentExit(0, <<"Rate", " ", "LIMIT">>, 2),
   AgentExit(0, <<"rate", "limit">>, 1),
   AgentExit(1, <<>>, 2),
   AgentExit(1, PyBlock, 1),
   AgentExit(0, PyBlock \o <<USAGE_TOK>>, 2)}
TimeoutOutcome == [kind |-> "timeout"]

\* What one run of the test driver can end with, other than a timeout.
TestLatencies == {3}
TestOuts == {<<>>, <<"O", "K">>, <<"K", "O">>}
TestExits == [rc : {0, 1}, out : TestOuts]

DirNames == 1..2

\* subprocess.run returns or raises TimeoutExpired: the child is gone
ReapLeaves(ps, kind) == ps
Reap(ps, kind) ==
  LET at == {i \in 1..Len(ps) : ps[i] = kind}
  IN IF at = {} THEN ps
     ELSE SubSeq(ps, 1, Min(at) - 1) \o SubSeq(ps, Min(at) + 1, Len(ps))

\* -------------------------------------------------------------------- vt_ask
\* attempts < RETRY_MAX
CanRetryOffByOne(a) == a <= RETRY_MAX
CanRetry(a) == a < RETRY_MAX

\* ("429" in low) or ("rate limit" in low) or ("ratelimit" in low)
rate_limited_CaseSensitive(out) ==
  \/ Contains(out, <<"429">>)
  \/ Contains(out, <<"rate", " ", "limit">>)
  \/ Contains(out, <<"rate", "limit">>)
rate_limited(out) ==
  LET low == lower(out)
  IN \/ Contains(low, <<"429">>)
     \/ Contains(low, <<"rate", " ", "limit">>)
     \/ Contains(low, <<"rate", "limit">>)

\* rc != 0 or rate_limited
NeedsRetry(rc, out) == rc # 0 \/ rate_limited(out)

\* the value returned when the last attempt timed out
TimeoutResultTotalWait(v) ==
  [timed_out |-> TRUE, latency_s |-> TIMEOUT_S(v) * (RETRY_MAX + 1), stdout |-> <<>>,
   usage |-> NoUsage, rc |-> IF v = "HE" THEN 124 ELSE NoneNum]
TimeoutResultNotFlagged(v) ==
  [timed_out |-> FALSE, latency_s |-> TIMEOUT_S(v), stdout |-> <<>>,
   usage |-> NoUsage, rc |-> IF v = "HE" THEN 124 ELSE NoneNum]
TimeoutResult(v) ==
  [timed_out |-> TRUE, latency_s |-> TIMEOUT_S(v), stdout |-> <<>>,
   usage |-> NoUsage, rc |-> IF v = "HE" THEN 124 ELSE NoneNum]

\* USAGE_JSON.search(out) and json.loads of the match (the SWE-Lite script
\* does not look for usage)
ParseUsage(v, out) ==
  IF v # "SWE" /\ Contains(out, <<USAGE_TOK>>) THEN Usage(1000, 2000) ELSE NoUsage

\* the value returned after an attempt that ended (the MBPP and SWE-Lite
\* results carry no rc)
AskResultSentinel(v, o) ==
  IF NeedsRetry(o.rc, o.out) THEN TimeoutResult(v)
  ELSE [timed_out |-> FALSE, latency_s |-> o.dt, stdout |-> o.out,
        usage |-> ParseUsage(v, o.out), rc |-> IF v = "HE" THEN o.rc ELSE NoneNum]
AskResultSWEFlagsFailure(v, o) ==
  IF v = "SWE" /\ o.rc # 0 THEN TimeoutResult(v)
  ELSE [timed_out |-> FALSE, latency_s |-> o.dt, stdout |-> o.out,
        usage |-> ParseUsage(v, o.out), rc |-> IF v = "HE" THEN o.rc ELSE NoneNum]
AskResult(v, o) ==
  [timed_out |-> FALSE, latency_s |-> o.dt, stdout |-> o.out,
   usage |-> ParseUsage(v, o.out), rc |-> IF v = "HE" THEN o.rc ELSE NoneNum]

\* time.sleep(backoff); attempts += 1; backoff *= 2; continue
RetryKeepsBackoff ==
  /\ sleeps' = Append(sleeps, backoff)
  /\ attempts' = attempts + 1
  /\ backoff' = backoff
  /\ pc' = "call"
  /\ UNCHANGED g
Retry ==
  /\ sleeps' = Append(sleeps, backoff)
  /\ attempts' = attempts + 1
  /\ backoff' = backoff * 2
  /\ pc' = "call"
  /\ UNCHANGED g

Return(val) ==
  /\ g' = val
  /\ pc' = "ret"
  /\ UNCHANGED <<sleeps, attempts, backoff>>

\* for ex in tasks: ... g = vt_ask(prompt)
StartTask ==
  /\ UNCHANGED <<xvars, fvars>>
  /\ variant \in BenchVariants
  /\ pc = "loop"
  /\ ti < ntasks
  /\ ti' = ti + 1
  /\ attempts' = 0
  /\ backoff' = BACKOFF_MS
  /\ spawned' = 0
  /\ hist' = <<>>
  /\ sleeps' = <<>>
  /\ g' = NoResult
  /\ pc' = "call"
  /\ UNCHANGED <<fed, variant, ntasks, results, graded, tmpdirs, curdir, procs,
                 report, exit_code, spawn_err>>

\* subprocess.run starts the agent
Spawn ==
  /\ UNCHANGED <<xvars, fvars>>
  /\ pc = "call"
  /\ procs' = Append(procs, "agent")
  /\ spawned' = spawned + 1
  /\ pc' = "wait"
  /\ UNCHANGED <<fed, variant, ntasks, ti, attempts, backoff, hist, sleeps, g,
                 results, graded, tmpdirs, curdir, report, exit_code, spawn_err>>

\* subprocess.run raises FileNotFoundError: only TimeoutExpired is caught, so
\* the script dies with a traceback
SpawnFail ==
  /\ UNCHANGED <<xvars, fvars>>
  /\ variant \in BenchVariants
  /\ pc = "call"
  /\ spawn_err' = TRUE
  /\ pc' = "crashed"
  /\ exit_code' = 1
  /\ UNCHANGED <<fed, variant, ntasks, ti, attempts, backoff, spawned, hist, sleeps,
                 g, results, graded, tmpdirs, curdir, procs, report>>

\* except subprocess.TimeoutExpired
AskTimeout ==
  /\ UNCHANGED <<xvars, fvars>>
  /\ variant \in BenchVariants
  /\ pc = "wait"
  /\ procs' = Reap(procs, "agent")
  /\ hist' = Append(hist, TimeoutOutcome)
  /\ IF CanRetry(attempts) THEN Retry ELSE Return(TimeoutResult(variant))
  /\ UNCHANGED <<fed, variant, ntasks, ti, spawned, results, graded, tmpdirs,
                 curdir, report, exit_code, spawn_err>>

\* the agent ended: out, dt, rc
AskExit ==
  /\ UNCHANGED <<xvars, fvars>>
  /\ variant \in BenchVariants
  /\ pc = "wait"
  /\ \E o \in AgentExits :
       /\ hist' = Append(hist, o)
       /\ IF NeedsRetry(o.rc, o.out) /\ CanRetry(attempts)
            THEN Retry
            ELSE Return(AskResult(variant, o))
  /\ procs' = Reap(procs, "agent")
  /\ UNCHANGED <<fed, variant, ntasks, ti, spawned, results, graded, tmpdirs,
                 curdir, report, exit_code, spawn_err>>

\* ------------------------------------------------------------------ grader
\* ok = (rc == 0) and ("OK" in out)
VerdictExitOnly(rc, out) == rc = 0
Verdict(rc, out) == rc = 0 /\ Contains(out, <<"O", "K">>)

\* s[-n:]
LastN(s, n) == SubSeq(s, IF Len(s) > n THEN Len(s) - n + 1 ELSE 1, Len(s))

\* tempfile.TemporaryDirectory().__enter__: a directory that did not exist
mkdtemp(dirs) == DirNames \ {x.name : x \in dirs}

\* the files the grader writes into its directory
SandboxFiles(v) == IF v = "HE" THEN {"solution.py", "test.py"} ELSE {"sol.py", "test.py"}

\* tempfile.TemporaryDirectory().__exit__: the directory and its files go
CleanupLeaves(dirs, d) == dirs
Cleanup(dirs, d) == {x \in dirs : x.name # d}

\* -------------------------------------------------------------- driver loop
\* vt_ask has returned and its value has been read: its locals are gone
AskLocalsGone ==
  /\ attempts' = 0
  /\ backoff' = BACKOFF_MS
  /\ spawned' = 0
  /\ hist' = <<>>
  /\ sleeps' = <<>>

\* the record r before the outcome is filled in
BaseResult(v, id, gv) ==
  IF v = "HE"
    THEN [id |-> id, gen_timeout |-> gv.timed_out, latency_s |-> gv.latency_s,
          usage |-> gv.usage, rc |-> gv.rc, passed |-> FALSE,
          test_time_s |-> NoneNum, err_tail |-> NoneText, gen_error |-> NoneNum]
    ELSE [id |-> id, gen_timeout |-> gv.timed_out, latency_s |-> gv.latency_s,
          usage |-> gv.usage, passed |-> FALSE, test_time_s |-> NoneNum,
          err_tail |-> NoneText]

\* HumanEval only: if g.get("rc", 0) != 0
GenErrorSkipsSentinel(v, gv) == v = "HE" /\ gv.rc \notin {0, 124}
GenError(v, gv) == v = "HE" /\ gv.rc # 0

\* the branch that reaches run_humaneval_test / run_python_tests
ShouldGradeAnyCode(v, gv) == ~GenError(v, gv) /\ ~gv.timed_out
ShouldGrade(v, gv) ==
  /\ ~GenError(v, gv)
  /\ ~gv.timed_out
  /\ strip(Extract(v, gv.stdout)) # <<>>

\* the record appended when the grader is not run
UngradedResultNoTail(v, id, gv) ==
  IF GenError(v, gv)
    THEN [BaseResult(v, id, gv) EXCEPT !.gen_error = gv.rc,
                                       !.err_tail = LastN(gv.stdout, 400)]
  ELSE BaseResult(v, id, gv)
UngradedResult(v, id, gv) ==
  IF GenError(v, gv)
    THEN [BaseResult(v, id, gv) EXCEPT !.gen_error = gv.rc,
                                       !.err_tail = LastN(gv.stdout, 400)]
  ELSE IF ~gv.timed_out
    THEN [BaseResult(v, id, gv) EXCEPT !.err_tail = <<"no_code">>]
  ELSE BaseResult(v, id, gv)

\* the record appended after the grader returned (ok, tdt, tail)
GradedResult(v, id, gv, ok, tdt, tail) ==
  [BaseResult(v, id, gv) EXCEPT !.passed = ok, !.test_time_s = tdt,
                                !.err_tail = IF ok THEN NoneText ELSE tail]

\* what the last attempt of the call gave: a python fenced block with exit
\* code 0, nothing at all with exit code 0, or anything else
AgentFed(o) ==
  IF o.kind = "exit" /\ o.rc = 0 /\ FENCE_MBPP_search(o.out).found THEN "solution"
  ELSE IF o.kind = "exit" /\ o.rc = 0 /\ o.out = <<>> THEN "empty"
  ELSE "other"

\* HumanEval, MBPP: the code was not run
ProcessNoGrade ==
  /\ UNCHANGED <<xvars, fvars>>
  /\ variant \in {"HE", "MBPP"}
  /\ pc = "ret"
  /\ ~ShouldGrade(variant, g)
  /\ results' = Append(results, UngradedResult(variant, ti, g))
  /\ fed' = Append(fed, [agent |-> AgentFed(Last(hist)), test |-> "none"])
  /\ graded' = NotGraded
  /\ g' = NoResult
  /\ AskLocalsGone
  /\ pc' = "loop"
  /\ UNCHANGED <<variant, ntasks, ti, tmpdirs, curdir, procs, report, exit_code,
                 spawn_err>>

\* SWE-Lite: the diff is looked for and the record appended
ProcessDiff ==
  /\ UNCHANGED <<xvars, fvars>>
  /\ variant = "SWE"
  /\ pc = "ret"
  /\ LET diff == Extract(variant, g.stdout)
     IN results' = Append(results,
          [id |-> ti, timeout |-> g.timed_out, latency_s |-> g.latency_s,
           diff_chars |-> Len(diff), has_diff |-> diff # <<>>])
  /\ fed' = Append(fed, [agent |-> AgentFed(Last(hist)), test |-> "none"])
  /\ graded' = NotGraded
  /\ g' = NoResult
  /\ AskLocalsGone
  /\ pc' = "loop"
  /\ UNCHANGED <<variant, ntasks, ti, tmpdirs, curdir, procs, report, exit_code,
                 spawn_err>>

\* run_humaneval_test / run_python_tests up to subprocess.run: the directory
\* is made, the two files written, the test driver started
StartGrade ==
  /\ UNCHANGED <<xvars, fvars>>
  /\ variant \in {"HE", "MBPP"}
  /\ pc = "ret"
  /\ ShouldGrade(variant, g)
  /\ \E d \in mkdtemp(tmpdirs) :
       /\ tmpdirs' = tmpdirs \cup
            {[name |-> d, owner |-> ti, files |-> SandboxFiles(variant)]}
       /\ curdir' = d
  /\ procs' = Append(procs, "test")
  /\ fed' = Append(fed, [agent |-> AgentFed(Last(hist)), test |-> "running"])
  /\ AskLocalsGone
  /\ pc' = "grade_wait"
  /\ UNCHANGED <<variant, ntasks, ti, g, results, graded, report, exit_code,
                 spawn_err>>

\* the rest of the grader and of the loop body: the with block is left, the
\* record is completed and appended
FinishGradeDropsFailures(ok, tdt, tail, seen) ==
  /\ fed' = [fed EXCEPT ![Len(fed)].test =
               IF seen.timeout THEN "timeout"
               ELSE IF seen.rc = 0 /\ Contains(seen.out, <<"O", "K">>) THEN "ok"
               ELSE "failed"]
  /\ tmpdirs' = Cleanup(tmpdirs, curdir)
  /\ curdir' = 0
  /\ procs' = Reap(procs, "test")
  /\ results' = IF ok THEN Append(results, GradedResult(variant, ti, g, ok, tdt, tail))
                ELSE results
  /\ graded' = seen
  /\ g' = NoResult
  /\ pc' = "loop"
  /\ UNCHANGED <<variant, ntasks, ti, attempts, backoff, spawned, hist, sleeps,
                 report, exit_code, spawn_err>>
FinishGrade(ok, tdt, tail, seen) ==
  /\ fed' = [fed EXCEPT ![Len(fed)].test =
               IF seen.timeout THEN "timeout"
               ELSE IF seen.rc = 0 /\ Contains(seen.out, <<"O", "K">>) THEN "ok"
               ELSE "failed"]
  /\ tmpdirs' = Cleanup(tmpdirs, curdir)
  /\ curdir' = 0
  /\ procs' = Reap(procs, "test")
  /\ results' = Append(results, GradedResult(variant, ti, g, ok, tdt, tail))
  /\ graded' = seen
  /\ g' = NoResult
  /\ pc' = "loop"
  /\ UNCHANGED <<variant, ntasks, ti, attempts, backoff, spawned, hist, sleeps,
                 report, exit_code, spawn_err>>

\* except subprocess.TimeoutExpired: return False, TIMEOUT_S, "timeout"
GradeTimeoutAsFailure ==
  /\ UNCHANGED <<xvars, fvars>>
  /\ pc = "grade_wait"
  /\ FinishGrade(FALSE, 1, <<>>,
       [ran |-> TRUE, timeout |-> TRUE, rc |-> NoneNum, out |-> <<>>,
        code |-> Extract(variant, g.stdout)])
GradeTimeout ==
  /\ UNCHANGED <<xvars, fvars>>
  /\ pc = "grade_wait"
  /\ FinishGrade(FALSE, TIMEOUT_S(variant), <<"timeout">>,
       [ran |-> TRUE, timeout |-> TRUE, rc |-> NoneNum, out |-> <<>>,
        code |-> Extract(variant, g.stdout)])

\* the test driver ended: ok, dt, out[-1000:]
GradeExit ==
  /\ UNCHANGED <<xvars, fvars>>
  /\ pc = "grade_wait"
  /\ \E o \in TestExits, dt \in TestLatencies :
       FinishGrade(Verdict(o.rc, o.out), dt, LastN(o.out, 1000),
         [ran |-> TRUE, timeout |-> FALSE, rc |-> o.rc, out |-> o.out,
          code |-> Extract(variant, g.stdout)])

\* --------------------------------------------------------------- aggregator
\* p / n as a fraction
Frac(p, n) == [num |-> p, den |-> n]
FracEq(a, b) == a.num * b.den = b.num * a.den

\* sum(...)
RECURSIVE SumSeq(_)
SumSeq(q) == IF q = <<>> THEN 0 ELSE Head(q) + SumSeq(Tail(q))

\* sorted(vals), ascending
sortedKeepsOrder(vals) == vals
RECURSIVE sorted(_)
sorted(vals) ==
  IF vals = <<>> THEN <<>>
  ELSE LET rest == sorted(Tail(vals))
           k == Cardinality({i \in 1..Len(rest) : rest[i] <= Head(vals)})
       IN SubSeq(rest, 1, k) \o <<Head(vals)>> \o SubSeq(rest, k + 1, Len(rest))

\* int(round(q * m)) for q = q10 / 10: round() takes a tie to the even integer
RoundTruncates(q10, m) == (q10 * m) \div 10
Round(q10, m) ==
  LET f == (q10 * m) \div 10
      r == (q10 * m) % 10
  IN IF r < 5 THEN f
     ELSE IF r > 5 THEN f + 1
     ELSE IF f % 2 = 0 THEN f ELSE f + 1

\* summarize.pct(vals, q) on the sorted list vals; q = q10 / 10
pct(vals, q10) ==
  IF vals = <<>> THEN NoneNum
  ELSE LET i == Max({0, Min({Len(vals) - 1, Round(q10, Len(vals) - 1)})})
       IN vals[i + 1]

\* bench_swe_lite_dry.py pct(vals, q): sorts first
pct_SWE(vals, q10) == IF vals = <<>> THEN NoneNum ELSE pct(sorted(vals), q10)

\* (r.get("usage") or {}).get(key, 0)
prompt_tokens(u) == IF u.present THEN u.prompt_tokens ELSE 0
completion_tokens(u) == IF u.present THEN u.completion_tokens ELSE 0

\* the latencies of rs
Latencies(rs) == [i \in 1..Len(rs) |-> rs[i].latency_s]

\* cost: (usage_in/1000)*INPUT_PRICE + (usage_out/1000)*OUTPUT_PRICE, or None;
\* the value is kept times 1000, and a price is a whole number of units
est_cost(usage_in, usage_out, INPUT_PRICE, OUTPUT_PRICE) ==
  IF INPUT_PRICE > 0 \/ OUTPUT_PRICE > 0
    THEN usage_in * INPUT_PRICE + usage_out * OUTPUT_PRICE
    ELSE NoneNum

\* bench_humaneval.py, bench_mbpp.py summarize(results)
summarizeGradedOnly(rs, INPUT_PRICE, OUTPUT_PRICE) ==
  LET n == Len(rs)
      graded_n == Len(SelectSeq(rs, LAMBDA r : r.test_time_s # NoneNum))
      p == Len(SelectSeq(rs, LAMBDA r : r.passed))
      lat_ok == sorted(Latencies(SelectSeq(rs, LAMBDA r : ~r.gen_timeout)))
      usage_in == SumSeq([i \in 1..n |-> prompt_tokens(rs[i].usage)])
      usage_out == SumSeq([i \in 1..n |-> completion_tokens(rs[i].usage)])
  IN [n |-> n,
      pass_at_1 |-> IF graded_n # 0 THEN Frac(p, graded_n) ELSE Frac(0, 1),
      latency_p50_s |-> pct(lat_ok, 5),
      latency_p90_s |-> pct(lat_ok, 9),
      total_prompt_tokens |-> usage_in,
      total_completion_tokens |-> usage_out,
      est_cost_usd |-> est_cost(usage_in, usage_out, INPUT_PRICE, OUTPUT_PRICE)]
summarizeAllLatencies(rs, INPUT_PRICE, OUTPUT_PRICE) ==
  LET n == Len(rs)
      p == Len(SelectSeq(rs, LAMBDA r : r.passed))
      lat_ok == sorted(Latencies(rs))
      usage_in == SumSeq([i \in 1..n |-> prompt_tokens(rs[i].usage)])
      usage_out == SumSeq([i \in 1..n |-> completion_tokens(rs[i].usage)])
  IN [n |-> n,
      pass_at_1 |-> IF n # 0 THEN Frac(p, n) ELSE Frac(0, 1),
      latency_p50_s |-> pct(lat_ok, 5),
      latency_p90_s |-> pct(lat_ok, 9),
      total_prompt_tokens |-> usage_in,
      total_completion_tokens |-> usage_out,
      est_cost_usd |-> est_cost(usage_in, usage_out, INPUT_PRICE, OUTPUT_PRICE)]
summarize(rs, INPUT_PRICE, OUTPUT_PRICE) ==
  LET n == Len(rs)
      p == Len(SelectSeq(rs, LAMBDA r : r.passed))
      lat_ok == sorted(Latencies(SelectSeq(rs, LAMBDA r : ~r.gen_timeout)))
      usage_in == SumSeq([i \in 1..n |-> prompt_tokens(rs[i].usage)])
      usage_out == SumSeq([i \in 1..n |-> completion_tokens(rs[i].usage)])
  IN [n |-> n,
      pass_at_1 |-> IF n # 0 THEN Frac(p, n) ELSE Frac(0, 1),
      latency_p50_s |-> pct(lat_ok, 5),
      latency_p90_s |-> pct(lat_ok, 9),
      total_prompt_tokens |-> usage_in,
      total_completion_tokens |-> usage_out,
      est_cost_usd |-> est_cost(usage_in, usage_out, INPUT_PRICE, OUTPUT_PRICE)]

\* bench_swe_lite_dry.py summary
summary_SWE(rs) ==
  LET lat == Latencies(SelectSeq(rs, LAMBDA r : ~r.timeout))
  IN [n |-> Len(rs),
      has_diff_rate |-> IF rs # <<>>
                          THEN Frac(Len(SelectSeq(rs, LAMBDA r : r.has_diff)), Len(rs))
                          ELSE Frac(0, 1),
      latency_p50_s |-> pct_SWE(lat, 5),
      latency_p90_s |-> pct_SWE(lat, 9),
      timeouts |-> Len(SelectSeq(rs, LAMBDA r : r.timeout))]

\* eval_engine.py report["summary"]
summary_EVAL(rs) ==
  [total |-> Len(rs),
   passed |-> Len(SelectSeq(rs, LAMBDA r : r.passed)),
   failed |-> Len(SelectSeq(rs, LAMBDA r : ~r.passed))]

\* the prices the environment can configure, per 1000 tokens
Prices == {0, 2}

\* report = {"meta": meta, "summary": summary, "results": results}
Report(v, rs, INPUT_PRICE, OUTPUT_PRICE) ==
  [written |-> TRUE,
   meta |-> IF v \in {"HE", "MBPP"}
              THEN [timeout_s |-> TIMEOUT_S(v),
                    prices_per_1k_tokens |-> [input |-> INPUT_PRICE,
                                              output |-> OUTPUT_PRICE]]
              ELSE [timeout_s |-> NoneNum],
   summary |-> CASE v \in {"HE", "MBPP"} -> summarize(rs, INPUT_PRICE, OUTPUT_PRICE)
                 [] v = "SWE" -> summary_SWE(rs)
                 [] OTHER -> summary_EVAL(rs),
   results |-> rs]

\* after the loop: the summary is computed, the report is written and the
\* script ends
WriteReport ==
  /\ UNCHANGED <<xvars, fvars>>
  /\ pc = "loop"
  /\ ti = ntasks
  /\ \E ip \in Prices, op \in Prices :
       /\ variant \notin {"HE", "MBPP"} => (ip = 0 /\ op = 0)
       /\ report' = Report(variant, results, ip, op)
  /\ exit_code' = 0
  /\ pc' = "done"
  /\ UNCHANGED <<fed, variant, ntasks, ti, attempts, backoff, spawned, hist, sleeps,
                 g, results, graded, tmpdirs, curdir, procs, spawn_err>>

\* ------------------------------------------------------- evaluation engine
\* What one run of the agent can end with for run_command, other than a
\* timeout: the exit code, whether stdout parses as JSON, response.content.
EvalContents == {<<>>, <<"x">>, PyBlock}
EvalExits == [rc : {0, 1}, json_ok : BOOLEAN, content : EvalContents]
Metrics == {"llm_grader", "exact_match", "code_validity"}
Expected == {<<"x">>, <<"y">>}

\* What LLMGrader.evaluate returns as "result": the text of the <result> tag,
\* or "error" (the judge could not be run, exited non-zero, or printed no tag)
JudgeResults == {<<"correct">>, <<"in", "correct">>, <<"error">>, <<"5">>, <<"3">>}

\* passed = "correct" in res_val or "grade>correct" in res_val or res_val == "5"
GraderPassed(res) ==
  LET res_val == lower(res)
  IN \/ Contains(res_val, <<"correct">>)
     \/ Contains(res_val, <<"grade>", "correct">>)
     \/ res_val = <<"5">>

\* ExactMatch.evaluate
ExactMatch(output, target) == lower(strip(output)) = lower(strip(target))

\* CodeValidity.evaluate: a python fence with something in it that compiles
\* (compiles: what compile() says, which the model leaves open)
CodeValidity(output, compiles) ==
  LET m == FENCE_PY_search(output)
  IN m.found /\ strip(m.group1) # <<>> /\ compiles

\* evaluate_test_case returned the error record
EvalError(err) ==
  /\ results' = Append(results, [id |-> ti, error |-> err, passed |-> FALSE])
  /\ graded' = NotGraded
  /\ pc' = "loop"

\* evaluate_test_case returned the full record
EvalResult(output, grade, passed) ==
  /\ results' = Append(results,
       [id |-> ti, output |-> output, grade |-> grade, passed |-> passed])
  /\ graded' = NotGraded
  /\ pc' = "loop"

\* run_suite: for case in test_cases: evaluate_test_case -> run_command
EvalStartCase ==
  /\ UNCHANGED <<xvars, fvars>>
  /\ variant = "EVAL"
  /\ pc = "loop"
  /\ ti < ntasks
  /\ ti' = ti + 1
  /\ spawned' = 0
  /\ hist' = <<>>
  /\ g' = NoResult
  /\ pc' = "call"
  /\ UNCHANGED <<fed, variant, ntasks, attempts, backoff, sleeps, results, graded,
                 tmpdirs, curdir, procs, report, exit_code, spawn_err>>

\* run_command: except Exception as e: return {"error": str(e)}
EvalSpawnFail ==
  /\ UNCHANGED <<xvars, fvars>>
  /\ variant = "EVAL"
  /\ pc = "call"
  /\ spawn_err' = TRUE
  /\ EvalError(<<"FileNotFoundError">>)
  /\ UNCHANGED <<fed, variant, ntasks, ti, attempts, backoff, spawned, hist, sleeps,
                 g, tmpdirs, curdir, procs, report, exit_code>>

\* run_command: except subprocess.TimeoutExpired: return {"error": "Timeout"}
EvalTimeout ==
  /\ UNCHANGED <<xvars, fvars>>
  /\ variant = "EVAL"
  /\ pc = "wait"
  /\ procs' = Reap(procs, "agent")
  /\ EvalError(<<"Timeout">>)
  /\ UNCHANGED <<fed, variant, ntasks, ti, attempts, backoff, spawned, hist, sleeps,
                 g, tmpdirs, curdir, report, exit_code, spawn_err>>

\* run_command returned; evaluate_test_case up to the metric.  The judge of
\* the llm_grader metric is one more child process.
EvalExit ==
  /\ UNCHANGED <<xvars, fvars>>
  /\ variant = "EVAL"
  /\ pc = "wait"
  /\ \E o \in EvalExits, metric \in Metrics, target \in Expected, compiles \in BOOLEAN :
       IF o.rc # 0
            THEN EvalError(<<"stderr">>) /\ procs' = Reap(procs, "agent") /\ UNCHANGED g
          ELSE IF ~o.json_ok
            THEN EvalError(<<"Invalid JSON">>) /\ procs' = Reap(procs, "agent") /\ UNCHANGED g
          ELSE IF metric = "llm_grader"
            THEN /\ g' = [NoResult EXCEPT !.stdout = o.content]
                 /\ procs' = Append(Reap(procs, "agent"), "judge")
                 /\ pc' = "judge_wait"
                 /\ UNCHANGED <<results, graded>>
          ELSE IF metric = "code_validity"
            THEN /\ EvalResult(o.content,
                               IF CodeValidity(o.content, compiles)
                                 THEN <<"valid">> ELSE <<"invalid">>,
                               CodeValidity(o.content, compiles))
                 /\ procs' = Reap(procs, "agent")
                 /\ UNCHANGED g
          ELSE /\ EvalResult(o.content,
                             IF ExactMatch(o.content, target)
                               THEN <<"match">> ELSE <<"no match">>,
                             ExactMatch(o.content, target))
               /\ procs' = Reap(procs, "agent")
               /\ UNCHANGED g
  /\ UNCHANGED <<fed, variant, ntasks, ti, attempts, backoff, spawned, hist, sleeps,
                 tmpdirs, curdir, report, exit_code, spawn_err>>

\* LLMGrader.evaluate returned; passed is computed and the record returned
EvalJudgeDone ==
  /\ UNCHANGED <<xvars, fvars>>
  /\ variant = "EVAL"
  /\ pc = "judge_wait"
  /\ \E res \in JudgeResults : EvalResult(g.stdout, res, GraderPassed(res))
  /\ procs' = Reap(procs, "judge")
  /\ g' = NoResult
  /\ UNCHANGED <<fed, variant, ntasks, ti, attempts, backoff, spawned, hist, sleeps,
                 tmpdirs, curdir, report, exit_code, spawn_err>>

\* ------------------------------------------------------------ specification
SIdle ==
  /\ svariant = "HE"
  /\ srs = <<>>
  /\ sip = 0
  /\ sop = 0
  /\ ssum = NoReport
  /\ sdone = TRUE

PIdle ==
  /\ pvariant = "HE"
  /\ pds = <<>>
  /\ pN = 0
  /\ pids = <<>>
  /\ pshuffled = <<>>
  /\ ptasks = <<>>
  /\ pidxs = <<>>
  /\ pdone = TRUE

RIdle ==
  /\ clock = 0
  /\ disk = <<>>
  /\ runs = <<>>

WIdle ==
  /\ wpc = "done"
  /\ winput = <<>>
  /\ wfs = {}
  /\ wplan = <<>>
  /\ wi = 0
  /\ wresults = <<>>
  /\ wsteps = <<>>
  /\ wlogs = <<>>
  /\ wret = "none"

MIdle ==
  /\ mstdin = <<>>
  /\ mlines = <<>>
  /\ mstdout = <<>>
  /\ mpc = "eof"

XIdle ==
  /\ xtxt = <<>>
  /\ xvariant = "HE"
  /\ xout = <<>>
  /\ xdone = TRUE

Idle ==
  /\ variant = "HE"
  /\ ntasks = 0
  /\ ti = 0
  /\ pc = "done"
  /\ attempts = 0
  /\ backoff = BACKOFF_MS
  /\ spawned = 0
  /\ hist = <<>>
  /\ sleeps = <<>>
  /\ g = NoResult
  /\ results = <<>>
  /\ graded = NotGraded
  /\ tmpdirs = {}
  /\ curdir = 0
  /\ procs = <<>>
  /\ report = NoReport
  /\ exit_code = NoneNum
  /\ spawn_err = FALSE
  /\ fed = <<>>

Init ==
  /\ variant \in BenchVariants \cup {"EVAL"}
  /\ ntasks \in 0..MaxTasks
  /\ ti = 0
  /\ pc = "loop"
  /\ attempts = 0
  /\ backoff = BACKOFF_MS
  /\ spawned = 0
  /\ hist = <<>>
  /\ sleeps = <<>>
  /\ g = NoResult
  /\ results = <<>>
  /\ graded = NotGraded
  /\ tmpdirs = {}
  /\ curdir = 0
  /\ procs = <<>>
  /\ report = NoReport
  /\ exit_code = NoneNum
  /\ spawn_err = FALSE
  /\ fed = <<>>
  /\ XIdle
  /\ SIdle
  /\ PIdle
  /\ RIdle
  /\ WIdle
  /\ MIdle

Next ==
  \/ StartTask
  \/ Spawn
  \/ SpawnFail
  \/ AskTimeout
  \/ AskExit
  \/ ProcessNoGrade
  \/ ProcessDiff
  \/ StartGrade
  \/ GradeTimeout
  \/ GradeExit
  \/ WriteReport
  \/ EvalStartCase
  \/ EvalSpawnFail
  \/ EvalTimeout
  \/ EvalExit
  \/ EvalJudgeDone

Spec == Init /\ [][Next]_allvars

\* The extractor alone, on every input of Texts(MaxSegs).
XInit ==
  /\ xtxt \in Texts(MaxSegs)
  /\ xvariant \in BenchVariants
  /\ xout = <<>>
  /\ xdone = FALSE
  /\ Idle
  /\ SIdle
  /\ PIdle
  /\ RIdle
  /\ WIdle
  /\ MIdle

DoExtract ==
  /\ ~xdone
  /\ xout' = Extract(xvariant, xtxt)
  /\ xdone' = TRUE
  /\ UNCHANGED <<xtxt, xvariant>>
  /\ UNCHANGED <<vars, fvars>>

XNext == DoExtract

SpecExtract == XInit /\ [][XNext]_allvars

\* ----------------------------------------------------------- task sampler
\* The sampler alone.  The dataset is a list of distinct task ids; an explicit
\* id list may repeat an id and may name an id the dataset does not have.
DsIds == <<"t1", "t2", "t3", "t4">>
IdPool == {"t1", "t2", "t3", "t9"}
Datasets == {SubSeq(DsIds, 1, n) : n \in 0..MaxDs}

RECURSIVE IdLists(_)
IdLists(n) ==
  IF n = 0 THEN {<<>>}
  ELSE LET shorter == IdLists(n - 1)
       IN shorter \cup {Append(l, id) : l \in shorter, id \in IdPool}

\* rng.shuffle(idxs): some order of the indices 0..n-1
Shuffles(n) ==
  {f \in [1..n -> 0..(n - 1)] : \A i, j \in 1..n : i # j => f[i] # f[j]}

\* idxs[:n], n >= 0
Take(q, n) == SubSeq(q, 1, Min({n, Len(q)}))

\* sorted(idxs[:n])
SeededIdxsUnsorted(shuffled, n) == Take(shuffled, n)
SeededIdxs(shuffled, n) == sorted(Take(shuffled, n))

\* [ex for ex in ds if ex["task_id"] in want]
ByIds(ds, ids) ==
  SelectSeq(ds, LAMBDA id : \E k \in 1..Len(ids) : ids[k] = id)

PInit ==
  /\ pvariant \in BenchVariants
  /\ pds \in Datasets
  /\ pN \in 0..(MaxDs + 1)
  /\ pids \in IdLists(MaxIds)
  /\ pvariant = "SWE" => pids = <<>>
  /\ pshuffled = <<>>
  /\ ptasks = <<>>
  /\ pidxs = <<>>
  /\ pdone = FALSE
  /\ Idle
  /\ XIdle
  /\ SIdle
  /\ RIdle
  /\ WIdle
  /\ MIdle

\* tasks = sample_tasks(ds, N, ids); if ids: N = len(tasks)
\* (bench_swe_lite_dry.py has the seeded path only, inline)
DoSample ==
  /\ ~pdone
  /\ IF pids # <<>>
       THEN /\ ptasks' = ByIds(pds, pids)
            /\ pN' = Len(ptasks')
            /\ UNCHANGED <<pshuffled, pidxs>>
       ELSE /\ pshuffled' \in Shuffles(Len(pds))
            /\ pidxs' = SeededIdxs(pshuffled', pN)
            /\ ptasks' = [i \in 1..Len(pidxs') |-> pds[pidxs'[i] + 1]]
            /\ UNCHANGED pN
  /\ pdone' = TRUE
  /\ UNCHANGED <<pvariant, pds, pids>>
  /\ UNCHANGED <<vars, xvars, svars, rvars, wvars, mvars>>

PNext == DoSample

SpecSample == PInit /\ [][PNext]_allvars

\* ------------------------------------------------------------ report path
\* Runs of the scripts, one after another or side by side, reduced to the
\* moment each writes its report.
TicksPerSecond == 2

\* now_stamp(): the local time to the second
now_stamp(t) == t \div TicksPerSecond

\* SAFE: every run of characters outside [A-Za-z0-9._-] becomes one "_"
SafeChar(c) == c \notin {"/", ":", " "}
RECURSIVE SAFE(_)
SAFE(m) ==
  IF m = <<>> THEN <<>>
  ELSE IF SafeChar(Head(m)) THEN <<Head(m)>> \o SAFE(Tail(m))
  ELSE IF Len(m) > 1 /\ ~SafeChar(m[2]) THEN SAFE(Tail(m))
  ELSE <<"_">> \o SAFE(Tail(m))

\* MODEL, one character per element
Models == {<<"m", "x">>, <<"m", "/", "x">>, <<"m", ":", " ", "x">>}

\* f"HE_{stamp}_{safe_model}_tools-{int(USE_TOOLS)}_N{len(tasks)}.json"
ReportPath(bench, t, model, use_tools, n) ==
  <<bench, now_stamp(t), SAFE(model), IF use_tools THEN 1 ELSE 0, n>>

\* open(out_path, "w"): the file is created, or truncated and rewritten
WriteFile(fs, path, content) ==
  [q \in DOMAIN fs \cup {path} |-> IF q = path THEN content ELSE fs[q]]

RInit ==
  /\ clock = 0
  /\ disk = <<>>
  /\ runs = <<>>
  /\ Idle
  /\ XIdle
  /\ SIdle
  /\ PIdle
  /\ WIdle
  /\ MIdle

\* time passes
Tick ==
  /\ clock < MaxClock
  /\ clock' = clock + 1
  /\ UNCHANGED <<disk, runs>>
  /\ UNCHANGED <<vars, xvars, svars, pvars, wvars, mvars>>

\* a run comes to its report write
RunWritesReport ==
  /\ Len(runs) < MaxRuns
  /\ \E bench \in {"HE", "MBPP", "SWE"}, model \in Models, use_tools \in BOOLEAN,
        n \in 1..2 :
       LET out_path == ReportPath(bench, clock, model, use_tools, n)
           run == Len(runs) + 1
       IN /\ disk' = WriteFile(disk, out_path, run)
          /\ runs' = Append(runs, [run |-> run, model |-> model,
                                   out_path |-> out_path])
  /\ UNCHANGED clock
  /\ UNCHANGED <<vars, xvars, svars, pvars, wvars, mvars>>

RNext == Tick \/ RunWritesReport

SpecReports == RInit /\ [][RNext]_allvars

\* The aggregator alone.  Its inputs are result lists of two kinds: up to
\* MaxLats results that differ in latency only, and pairs of results that
\* differ in outcome, timeout flag and usage as well.
LatVals == 1..5
RECURSIVE LatLists(_)
LatLists(n) ==
  IF n = 0 THEN {<<>>}
  ELSE LET shorter == LatLists(n - 1)
       IN shorter \cup {Append(l, v) : l \in shorter, v \in LatVals}

Usages == {NoUsage, Usage(1000, 2000), Usage(500, 0)}

\* a result as the main loop builds it, with the fields summarize reads set
ResultWith(v, id, lat, to, u, ok) ==
  IF v = "SWE"
    THEN [id |-> id, timeout |-> to, latency_s |-> lat, diff_chars |-> 0,
          has_diff |-> ok]
    ELSE [BaseResult(v, id, [timed_out |-> to, latency_s |-> lat, stdout |-> <<>>,
                             usage |-> u, rc |-> IF v = "HE" THEN 0 ELSE NoneNum])
            EXCEPT !.passed = ok]

MixedResults(v, id) ==
  {ResultWith(v, id, lat, to, u, ok) :
     lat \in {1, 2}, to \in BOOLEAN, u \in Usages, ok \in BOOLEAN}

\* lists in which each task either timed out in generation, and carries the
\* sentinel latency TIMEOUT_S, or was measured at 1 or at 4
Sentinel == 0
RECURSIVE SentinelLists(_)
SentinelLists(n) ==
  IF n = 0 THEN {<<>>}
  ELSE LET shorter == SentinelLists(n - 1)
       IN shorter \cup {Append(l, x) : l \in shorter, x \in {Sentinel, 1, 4}}

SummaryInputs(v) ==
  {[i \in 1..Len(l) |-> ResultWith(v, i, l[i], FALSE, NoUsage, FALSE)] :
     l \in LatLists(MaxLats)}
    \cup {<<a, b>> : a \in MixedResults(v, 1), b \in MixedResults(v, 2)}
    \cup {[i \in 1..Len(l) |->
             IF l[i] = Sentinel
               THEN ResultWith(v, i, TIMEOUT_S(v), TRUE, NoUsage, FALSE)
               ELSE ResultWith(v, i, l[i], FALSE, NoUsage, FALSE)] :
           l \in SentinelLists(MaxLats)}

SInit ==
  /\ svariant \in BenchVariants
  /\ srs \in SummaryInputs(svariant)
  /\ sip \in Prices
  /\ sop \in Prices
  /\ svariant = "SWE" => (sip = 0 /\ sop = 0)
  /\ ssum = NoReport
  /\ sdone = FALSE
  /\ Idle
  /\ XIdle
  /\ PIdle
  /\ RIdle
  /\ WIdle
  /\ MIdle

DoSummarize ==
  /\ ~sdone
  /\ ssum' = Report(svariant, srs, sip, sop).summary
  /\ sdone' = TRUE
  /\ UNCHANGED <<svariant, srs, sip, sop>>
  /\ UNCHANGED <<vars, xvars, pvars, rvars, wvars, mvars>>

SNext == DoSummarize

SpecSummary == SInit /\ [][SNext]_allvars

\* ----------------------------------------------------------- mock MCP server
\* mock_mcp_server.py: the loop over sys.stdin. A line is blank, not JSON,
\* JSON that is not an object ("array"), or a JSON object with its "id"
\* (NoneNum: absent or null), "method" and "params" ("absent", or "text": a
\* non-empty string where an object is expected).
Methods == {"initialize", "tools/list", "tools/call", "ping", "other"}
Line(kind, id, method, params) ==
  [kind |-> kind, id |-> id, method |-> method, params |-> params]
InputLines ==
  {Line("blank", NoneNum, "none", "absent"),
   Line("malformed", NoneNum, "none", "absent"),
   Line("array", NoneNum, "none", "absent")}
    \cup {Line("object", id, m, "absent") : id \in {NoneNum, 1, 2}, m \in Methods}
    \cup {Line("object", id, m, "text") : id \in {NoneNum, 1}, m \in Methods}

\* send(message): one line on stdout
send(out, id, kind) == Append(out, [id |-> id, kind |-> kind])

\* one iteration of the loop on the line l with out written so far: what is
\* written after it, and whether an exception ended the process
HandleLine(l, out) ==
  CASE l.kind \in {"blank", "malformed"} -> [raised |-> FALSE, out |-> out]
    [] l.kind = "array" -> [raised |-> TRUE, out |-> out]
    [] OTHER ->
       IF l.id = NoneNum THEN [raised |-> FALSE, out |-> out]
       ELSE IF l.method \in {"initialize", "tools/call"}
         THEN IF l.params = "text" THEN [raised |-> TRUE, out |-> out]
              ELSE [raised |-> FALSE, out |-> send(out, l.id, "result")]
       ELSE IF l.method \in {"tools/list", "ping"}
         THEN [raised |-> FALSE, out |-> send(out, l.id, "result")]
       ELSE [raised |-> FALSE, out |-> send(out, l.id, "error")]

RECURSIVE LinesUpTo(_)
LinesUpTo(n) ==
  IF n = 0 THEN {<<>>}
  ELSE LET shorter == LinesUpTo(n - 1)
       IN shorter \cup {Append(q, l) : q \in shorter, l \in InputLines}

MInit ==
  /\ mstdin \in LinesUpTo(MaxLines)
  /\ mlines = <<>>
  /\ mstdout = <<>>
  /\ mpc = "running"
  /\ Idle
  /\ XIdle
  /\ SIdle
  /\ PIdle
  /\ RIdle
  /\ WIdle

\* for raw_line in sys.stdin: one line is read and handled
ReadLine ==
  /\ mpc = "running"
  /\ mstdin # <<>>
  /\ LET h == HandleLine(Head(mstdin), mstdout)
     IN /\ mstdout' = h.out
        /\ mpc' = IF h.raised THEN "crashed" ELSE "running"
  /\ mlines' = Append(mlines, Head(mstdin))
  /\ mstdin' = Tail(mstdin)
  /\ UNCHANGED <<vars, xvars, svars, pvars, rvars, wvars>>

\* stdin ends: the loop and the process end
EndOfInput ==
  /\ mpc = "running"
  /\ mstdin = <<>>
  /\ mpc' = "eof"
  /\ UNCHANGED <<mstdin, mlines, mstdout>>
  /\ UNCHANGED <<vars, xvars, svars, pvars, rvars, wvars>>

MNext == ReadLine \/ EndOfInput

SpecMcp == MInit /\ [][MNext]_allvars

\* ------------------------------------------- plan-validate-execute workflow
\* production.py PlanValidateExecuteWorkflow.run_workflow(input_files).
\* An input file is its stem, whether it exists, and whether its name holds
\* the letters "ms".
WInputs ==
  UNION {{[i \in 1..k |-> [stem |-> i, exists |-> f[i].exists, ms |-> f[i].ms]] :
            f \in [1..k -> [exists : BOOLEAN, ms : BOOLEAN]]} : k \in 0..MaxFiles}

InputPath(f) == <<"input", f.stem>>
PlanFile == <<"plan.json">>
\* output_dir / f"{Path(input_file).stem}_processed.txt"
OutputPath(f) == <<"results", f.stem>>
SimulatedError == <<"Simulated processing error on file 3">>

\* self.log(message)
Log(logs, msg, ms) == Append(logs, [msg |-> msg, ms |-> ms])

WInit ==
  /\ wpc = "plan"
  /\ winput \in WInputs
  /\ wfs = {InputPath(winput[i]) : i \in {j \in 1..Len(winput) : winput[j].exists}}
  /\ wplan = <<>>
  /\ wi = 0
  /\ wresults = <<>>
  /\ wsteps = <<>>
  /\ wlogs = <<>>
  /\ wret = "none"
  /\ Idle
  /\ XIdle
  /\ SIdle
  /\ PIdle
  /\ RIdle
  /\ MIdle

\* STEP 1: plan_batch_processing writes plan.json and returns (True, plan_file)
plan_batch_processing ==
  /\ wpc = "plan"
  /\ wplan' = winput
  /\ wfs' = wfs \cup {PlanFile}
  /\ wlogs' = Log(Log(Log(wlogs, "PLAN", FALSE), "Created plan", FALSE),
                  "Estimated time", FALSE)
  /\ wsteps' = Append(wsteps, "plan")
  /\ wpc' = "validate"
  /\ UNCHANGED <<winput, wi, wresults, wret>>
  /\ UNCHANGED <<vars, xvars, svars, pvars, rvars, mvars>>

\* STEP 2: validate_plan; on errors run_workflow returns False
validate_plan ==
  /\ wpc = "validate"
  /\ LET missing_files == SelectSeq(wplan, LAMBDA f : InputPath(f) \notin wfs)
         errors == IF missing_files # <<>> THEN <<"Missing input files">> ELSE <<>>
         started == Log(wlogs, "VALIDATE", FALSE)
     IN IF errors # <<>>
          THEN /\ wlogs' = Log(Log(Log(started, "Validation failed", FALSE),
                                   "Missing input files",
                                   \E i \in 1..Min({3, Len(missing_files)}) :
                                     missing_files[i].ms),
                               "Cannot proceed", FALSE)
               /\ wret' = "False"
               /\ wpc' = "done"
          ELSE /\ wlogs' = Log(started, "Plan validation passed", FALSE)
               /\ wret' = wret
               /\ wpc' = "execute"
  /\ wsteps' = Append(wsteps, "validate")
  /\ UNCHANGED <<winput, wfs, wplan, wi, wresults>>
  /\ UNCHANGED <<vars, xvars, svars, pvars, rvars, mvars>>

\* STEP 3: execute_batch begins: the plan is read back
execute_batch ==
  /\ wpc = "execute"
  /\ wlogs' = Log(wlogs, "EXECUTE", FALSE)
  /\ wi' = 0
  /\ wresults' = <<>>
  /\ wsteps' = Append(wsteps, "execute")
  /\ wpc' = "execute_loop"
  /\ UNCHANGED <<winput, wfs, wplan, wret>>
  /\ UNCHANGED <<vars, xvars, svars, pvars, rvars, mvars>>

\* one iteration of execute_batch's loop; at the third file of more than
\* three the simulated failure is raised, execute_batch returns
\* (False, [str(e)]) and run_workflow takes its recovery branch
execute_file ==
  /\ wpc = "execute_loop"
  /\ wi < Len(wplan)
  /\ LET i == wi + 1
         input_file == wplan[i]
         processing == Log(wlogs, "Processing file", input_file.ms)
     IN /\ wfs' = wfs \cup {OutputPath(input_file)}
        /\ wi' = i
        /\ IF i = 3 /\ Len(wplan) > 3
             THEN /\ wresults' = <<SimulatedError>>
                  /\ wlogs' = Log(Log(processing, "Execution failed", FALSE),
                                  "Attempting recovery", FALSE)
                  /\ wpc' = "verify"
             ELSE /\ wresults' = Append(wresults, OutputPath(input_file))
                  /\ wlogs' = processing
                  /\ wpc' = wpc
  /\ UNCHANGED <<winput, wplan, wsteps, wret>>
  /\ UNCHANGED <<vars, xvars, svars, pvars, rvars, mvars>>

\* the loop of execute_batch ends: (True, results)
execute_done ==
  /\ wpc = "execute_loop"
  /\ wi = Len(wplan)
  /\ wlogs' = Log(wlogs, "Successfully processed", FALSE)
  /\ wpc' = "verify"
  /\ UNCHANGED <<winput, wfs, wplan, wi, wresults, wsteps, wret>>
  /\ UNCHANGED <<vars, xvars, svars, pvars, rvars, mvars>>

\* STEP 4: verify_results(results), then the closing prints: the sum over
\* the log entries that hold "ms" adds a str to 0
verify_results ==
  /\ wpc = "verify"
  /\ LET errors == SelectSeq(wresults, LAMBDA r : r \notin wfs)
         started == Log(wlogs, "VERIFY", FALSE)
     IN IF errors # <<>>
          THEN /\ wlogs' = Log(started, "Verification failed", FALSE)
               /\ wret' = "False"
          ELSE /\ wlogs' = Log(started, "All results verified", FALSE)
               /\ wret' = IF \E k \in 1..Len(wlogs) : wlogs[k].ms
                             THEN "TypeError" ELSE "True"
  /\ wsteps' = Append(wsteps, "verify")
  /\ wpc' = "done"
  /\ UNCHANGED <<winput, wfs, wplan, wi, wresults>>
  /\ UNCHANGED <<vars, xvars, svars, pvars, rvars, mvars>>

WNext ==
  \/ plan_batch_processing
  \/ validate_plan
  \/ execute_batch
  \/ execute_file
  \/ execute_done
  \/ verify_results

SpecWorkflow == WInit /\ [][WNext]_allvars

\* ================================================================== claims
AllTimedOut(h) == \A i \in 1..Len(h) : h[i].kind = "timeout"
InVtAsk == pc \in {"call", "wait"}

\* the texts that carry a rate-limit marker: "429", "Rate LIMIT", "ratelimit"
MarkerTexts == {<<"429">>, <<"Rate", " ", "LIMIT">>, <<"rate", "limit">>}
RateLimitedAttempt(o) == o.kind = "exit" /\ o.rc = 0 /\ o.out \in MarkerTexts
CleanAttempt(o) == o.kind = "exit" /\ o.rc = 0 /\ o.out \notin MarkerTexts

\* C1: when every attempt of a vt_ask call times out, the call does not return
\* before attempt RETRY_MAX+1, makes no further attempt after it, and returns
\* timed_out = true, stdout empty and latency exactly TIMEOUT_S.
C1_TimeoutExhaustion ==
  (variant \in BenchVariants /\ hist # <<>> /\ AllTimedOut(hist)) =>
    /\ Len(hist) <= RETRY_MAX + 1
    /\ Len(hist) <= RETRY_MAX => (InVtAsk \/ pc = "crashed")
    /\ Len(hist) = RETRY_MAX + 1 =>
         /\ pc = "ret"
         /\ spawned = RETRY_MAX + 1
         /\ g.timed_out = TRUE
         /\ g.stdout = <<>>
         /\ g.latency_s = TIMEOUT_S(variant)

C1_Witness ==
  /\ variant \in BenchVariants
  /\ pc = "ret"
  /\ Len(hist) = RETRY_MAX + 1
  /\ AllTimedOut(hist)
  /\ g.timed_out

\* C2: when the first k attempts (k <= RETRY_MAX) exit 0 with a rate-limit
\* marker in stdout, the call goes on to attempt k+1, and when that attempt is
\* clean the call returns its stdout with timed_out = false.
C2_RateLimitRecovery ==
  (/\ variant \in BenchVariants
   /\ hist # <<>>
   /\ \A i \in 1..(Len(hist) - 1) : RateLimitedAttempt(hist[i])) =>
    /\ (RateLimitedAttempt(Last(hist)) /\ Len(hist) <= RETRY_MAX) =>
         (InVtAsk \/ pc = "crashed")
    /\ CleanAttempt(Last(hist)) =>
         /\ pc = "ret"
         /\ g.timed_out = FALSE
         /\ g.stdout = Last(hist).out
         /\ g.latency_s = Last(hist).dt

C2_Witness ==
  /\ variant \in BenchVariants
  /\ pc = "ret"
  /\ Len(hist) = 3
  /\ RateLimitedAttempt(hist[1])
  /\ RateLimitedAttempt(hist[2])
  /\ CleanAttempt(hist[3])
  /\ g.stdout = PyBlock
  /\ ~g.timed_out

\* C3: when attempt RETRY_MAX+1 (the one made with no retries left) ends
\* rate-limited or with a non-zero exit code, vt_ask returns that attempt's
\* stdout and measured latency with timed_out = false.
C3_Exhausted ==
  (/\ variant \in BenchVariants
   /\ Len(hist) = RETRY_MAX + 1
   /\ Last(hist).kind = "exit"
   /\ (Last(hist).rc # 0 \/ Last(hist).out \in MarkerTexts)) =>
    /\ pc = "ret"
    /\ g.timed_out = FALSE
    /\ g.stdout = Last(hist).out
    /\ g.latency_s = Last(hist).dt

C3_Witness ==
  /\ variant \in BenchVariants
  /\ pc = "ret"
  /\ Len(hist) = RETRY_MAX + 1
  /\ Last(hist).kind = "exit"
  /\ Last(hist).out \in MarkerTexts
  /\ g.stdout = Last(hist).out

\* the steps a vt_ask call can still take: two per agent process it may yet
\* start (start it, see it end), and one to see the running process end
StepsLeft == 2 * (RETRY_MAX + 1 - spawned) + (IF pc = "wait" THEN 1 ELSE 0)

\* C4: one vt_ask call never starts more than RETRY_MAX+1 agent processes,
\* whatever mix of timeouts, rate limits and non-zero exits it meets, and it
\* comes to an end: inside the call a step is always possible, and every step
\* that stays inside the call uses up one of the finitely many steps left.
C4_BoundedRetries ==
  /\ [](variant \in BenchVariants =>
          /\ spawned <= RETRY_MAX + 1
          /\ attempts <= RETRY_MAX
          /\ InVtAsk => (StepsLeft >= 0 /\ ENABLED Next))
  /\ [][(variant \in BenchVariants /\ InVtAsk /\ InVtAsk') =>
          StepsLeft' < StepsLeft]_allvars

C4_Witness ==
  /\ variant \in BenchVariants
  /\ pc = "ret"
  /\ spawned = RETRY_MAX + 1
  /\ \E i, j \in 1..Len(hist) :
       /\ hist[i].kind = "timeout"
       /\ hist[j].kind = "exit" /\ hist[j].rc # 0

\* C5: once the agent binary could not be started, the script has died: no
\* result was recorded for the task, no report is written, and the exit
\* status is not 0.
C5_SpawnFailureFatal ==
  spawn_err =>
    /\ pc = "crashed"
    /\ Len(results) = ti - 1
    /\ ~report.written
    /\ exit_code # 0

\* the grader's output contains the success marker
HasOK(out) == \E i \in 1..(Len(out) - 1) : out[i] = "O" /\ out[i + 1] = "K"

\* C6: a result with passed = true comes from a grader run on non-empty code
\* whose test process exited 0 and printed the success marker.
C6_PassedImplies ==
  (variant \in {"HE", "MBPP"} /\ results # <<>> /\ Last(results).passed) =>
    /\ graded.ran
    /\ ~graded.timeout
    /\ strip(graded.code) # <<>>
    /\ graded.rc = 0
    /\ HasOK(graded.out)

C6_Witness ==
  /\ variant \in {"HE", "MBPP"}
  /\ results # <<>>
  /\ Last(results).passed
  /\ graded.ran

\* C7: the verdict of a grader run is pass exactly when the test process
\* exited 0 and printed the success marker.
C7_VerdictIff ==
  (variant \in {"HE", "MBPP"} /\ results # <<>> /\ graded.ran) =>
    (Last(results).passed <=>
       (~graded.timeout /\ graded.rc = 0 /\ HasOK(graded.out)))

C7_Witness ==
  /\ variant \in {"HE", "MBPP"}
  /\ results # <<>>
  /\ graded.ran
  /\ ~graded.timeout
  /\ graded.rc = 0
  /\ ~HasOK(graded.out)
  /\ ~Last(results).passed

\* C8: outside a grading call no temporary directory of the harness exists;
\* during one, exactly the directory made for the current task exists, with
\* that task's two files.
C8_SandboxIsolation ==
  /\ pc # "grade_wait" => (tmpdirs = {} /\ curdir = 0)
  /\ pc = "grade_wait" =>
       tmpdirs = {[name |-> curdir, owner |-> ti, files |-> SandboxFiles(variant)]}

C8_Witness ==
  /\ pc = "loop"
  /\ Len(results) >= 2
  /\ graded.ran
  /\ graded.timeout
  /\ tmpdirs = {}

\* a fenced block of s: fences at i and j, none between
BlockAt(s, i, j) ==
  /\ i < j
  /\ s[i] = FENCE_TOK
  /\ s[j] = FENCE_TOK
  /\ \A k \in (i + 1)..(j - 1) : s[k] # FENCE_TOK
\* a fenced block of s whose opening fence carries one of the tags
TaggedBlockAt(s, i, j, tags) == BlockAt(s, i, j) /\ i + 1 < j /\ s[i + 1] \in tags
HasTaggedBlock(s, tags) ==
  \E i, j \in 1..Len(s) : TaggedBlockAt(s, i, j, tags)

\* C9: on a text that holds a fence tagged python (with untagged fences and
\* prose around it, in any order), extract_code returns the trimmed content
\* of a fence tagged python.
C9_LabeledFenceFirst ==
  (xdone /\ xvariant \in {"HE", "MBPP"} /\ HasTaggedBlock(xtxt, {"python"})) =>
    \E i, j \in 1..Len(xtxt) :
      /\ TaggedBlockAt(xtxt, i, j, {"python", "PYTHON"})
      /\ xout = strip(SubSeq(xtxt, i + 2, j - 1))

C9_Witness ==
  /\ xdone
  /\ xvariant \in {"HE", "MBPP"}
  /\ xtxt = AnyBlock \o <<"z">> \o PyBlock
  /\ xout = <<"x">>

\* C10: on a text with no fence tagged with the expected language (python
\* for code, diff for diffs) but with some fenced block, the extractor
\* returns the trimmed content of a fenced block.
ExpectedTags(v) == IF v = "SWE" THEN {"diff"} ELSE {"python", "PYTHON"}
C10_AnyFenceFallback ==
  (/\ xdone
   /\ ~HasTaggedBlock(xtxt, ExpectedTags(xvariant))
   /\ \E i, j \in 1..Len(xtxt) : BlockAt(xtxt, i, j)) =>
    \E i, j \in 1..Len(xtxt) :
      /\ BlockAt(xtxt, i, j)
      /\ xout = strip(SubSeq(xtxt, i + 1, j - 1))

\* the function-definition keyword, "def" and a blank
DefKeyword == <<"def", " ">>

\* C11: on a text without any fence, extract_code returns a string: the text
\* from the first function-definition keyword to the end when the keyword
\* occurs, and otherwise the whole text; trimmed in both cases.
C11_UnfencedLayering ==
  (xdone /\ xvariant \in {"HE", "MBPP"} /\ Fences(xtxt) = {}) =>
    /\ xout # NoneText
    /\ xout = IF Contains(xtxt, DefKeyword)
                THEN strip(From(xtxt, find(xtxt, DefKeyword)))
                ELSE strip(xtxt)

\* the step that handles a returned invocation which did not time out and
\* whose output holds no code records 'no_code', a fail, and starts no grader
NoCodeRecorded ==
  /\ Len(results') = Len(results) + 1
  /\ Last(results').err_tail = <<"no_code">>
  /\ Last(results').passed = FALSE
  /\ Last(results').test_time_s = NoneNum
  /\ procs' = procs
  /\ tmpdirs' = tmpdirs
  /\ graded' = NotGraded
  /\ pc' = "loop"
  /\ ti' = ti

FedSolved(f) == f.agent = "solution" /\ f.test = "ok"
\* the task got empty output
FedEmpty(f) == f.agent = "empty"
NoCodeResults(rs) == {i \in 1..Len(rs) : rs[i].err_tail = <<"no_code">>}

\* C13: in the report of a run over n tasks of which k got a correct fenced
\* solution and the other n-k got empty output, summary.n is n, pass_at_1 is
\* k/n, and exactly n-k results have err_tail 'no_code'.
C13_EndToEndSummary ==
  (/\ variant \in {"HE", "MBPP"}
   /\ report.written
   /\ \A i \in 1..Len(fed) : FedSolved(fed[i]) \/ FedEmpty(fed[i])) =>
    LET n == ntasks
        k == Cardinality({i \in 1..Len(fed) : FedSolved(fed[i])})
    IN /\ Len(fed) = n
       /\ report.summary.n = n
       /\ n > 0 => FracEq(report.summary.pass_at_1, Frac(k, n))
       /\ Cardinality(NoCodeResults(report.results)) = n - k

C13_Witness ==
  /\ variant \in {"HE", "MBPP"}
  /\ report.written
  /\ ntasks = MaxTasks
  /\ \A i \in 1..(MaxTasks - 1) : FedSolved(fed[i])
  /\ FedEmpty(fed[MaxTasks])
  /\ report.summary.pass_at_1 = Frac(MaxTasks - 1, MaxTasks)
  /\ NoCodeResults(report.results) = {MaxTasks}

\* the latencies that enter the percentiles: those of the results whose
\* generation did not time out
TimedOutFlag(r) == IF "timeout" \in DOMAIN r THEN r.timeout ELSE r.gen_timeout
LatIn(rs) == Latencies(SelectSeq(rs, LAMBDA r : ~TimedOutFlag(r)))

\* v is the element at index i (from 0) of l sorted ascending
IsOrderStatistic(l, i, v) ==
  /\ \E j \in 1..Len(l) : l[j] = v
  /\ Cardinality({j \in 1..Len(l) : l[j] < v}) <= i
  /\ Cardinality({j \in 1..Len(l) : l[j] <= v}) >= i + 1

\* v is the element of l at the index nearest to q * (n - 1), q = q10 / 10
NearestRank(l, q10, v) ==
  \E i \in 0..(Len(l) - 1) :
    /\ 10 * i - q10 * (Len(l) - 1) \in -5..5
    /\ IsOrderStatistic(l, i, v)

\* C14: on a non-empty latency list the percentile is a member of the list,
\* the one at the index nearest to q*(n-1) of the list sorted ascending; for
\* 1,2,3,4,5 in any order p50 is 3 and p90 is 5.
C14_PercentileNearestRank ==
  (sdone /\ LatIn(srs) # <<>>) =>
    /\ NearestRank(LatIn(srs), 5, ssum.latency_p50_s)
    /\ NearestRank(LatIn(srs), 9, ssum.latency_p90_s)
    /\ sorted(LatIn(srs)) = <<1, 2, 3, 4, 5>> =>
         (ssum.latency_p50_s = 3 /\ ssum.latency_p90_s = 5)

C14_Witness ==
  /\ sdone
  /\ LatIn(srs) = <<3, 1, 5, 2, 4>>
  /\ ssum.latency_p50_s = 3
  /\ ssum.latency_p90_s = 5

\* C15: the summary carries a cost estimate exactly when both prices are
\* non-zero; with either price zero est_cost_usd is None.
C15_CostNeedsBothPrices ==
  (sdone /\ svariant \in {"HE", "MBPP"}) =>
    (ssum.est_cost_usd # NoneNum <=> (sip # 0 /\ sop # 0))

\* C16: without an explicit id list the selected indices are indices of the
\* dataset, strictly ascending (so distinct), min(K, N) of them, whatever the
\* shuffle gave and also when K exceeds the dataset size; the tasks are the
\* dataset entries at those indices.
C16_SeededSample ==
  (pdone /\ pids = <<>>) =>
    /\ Len(pidxs) = Min({pN, Len(pds)})
    /\ \A i \in 1..Len(pidxs) : pidxs[i] \in 0..(Len(pds) - 1)
    /\ \A i \in 1..(Len(pidxs) - 1) : pidxs[i] < pidxs[i + 1]
    /\ \A i \in 1..Len(pidxs) : \E k \in 1..Len(pshuffled) :
         k <= pN /\ pshuffled[k] = pidxs[i]
    /\ Len(ptasks) = Len(pidxs)
    /\ \A i \in 1..Len(pidxs) : ptasks[i] = pds[pidxs[i] + 1]

C16_Witness ==
  /\ pdone
  /\ pids = <<>>
  /\ Len(pds) = MaxDs
  /\ pN = 2
  /\ pshuffled[1] > pshuffled[2]
  /\ pidxs = <<pshuffled[2], pshuffled[1]>>

\* C17: with an explicit id list the selected tasks are the dataset entries
\* the list names, and the count recorded as n_requested is the length of
\* the list.
C17_ExplicitIds ==
  (pdone /\ pids # <<>>) =>
    /\ {ptasks[i] : i \in 1..Len(ptasks)} =
         {pids[k] : k \in 1..Len(pids)} \cap {pds[j] : j \in 1..Len(pds)}
    /\ pN = Len(pids)

\* C18: at most one child process of the harness is alive at any time; an
\* agent process lives only while vt_ask waits for it and a test process only
\* while the grader waits for it; and a task is started only at the head of
\* the loop, when no child is alive, no sandbox is left and the result of
\* every earlier task has been appended.
C18_StrictSequencing ==
  /\ [](/\ Len(procs) <= 1
        /\ procs # <<>> => pc \in {"wait", "grade_wait", "judge_wait"}
        /\ pc = "wait" => procs = <<"agent">>
        /\ pc = "grade_wait" => procs = <<"test">>
        /\ pc \in {"call", "wait", "ret", "grade_wait", "judge_wait"} =>
             Len(results) = ti - 1)
  /\ [][ti' # ti =>
          /\ ti' = ti + 1
          /\ pc = "loop"
          /\ procs = <<>>
          /\ tmpdirs = {}
          /\ Len(results) = ti
          /\ spawned' = 0]_allvars

C18_Witness ==
  /\ variant \in {"HE", "MBPP"}
  /\ ti = 2
  /\ pc = "wait"
  /\ procs = <<"agent">>
  /\ spawned = 1
  /\ Len(results) = 1
  /\ graded.ran
  /\ fed[1].test = "failed"

\* the steps of one loop iteration at most: start the task, two per agent
\* process, start the grader, see it end
TaskSteps == 1 + 2 * (RETRY_MAX + 1) + 2

\* the steps a run can still take
RunStepsLeft ==
  IF pc \in {"done", "crashed"} THEN 0
  ELSE (ntasks - ti) * TaskSteps + 1
         + (CASE pc \in {"call", "wait"} -> StepsLeft + 2
              [] pc = "ret" -> 2
              [] pc = "grade_wait" -> 1
              [] OTHER -> 0)

\* C19: whatever the tasks end with, the results list only grows, by one
\* record per task in task order; the run stops early only when the agent
\* binary cannot be started; it always comes to its end (a step is possible
\* until then: at the head of the loop the next task is started or, after
\* the last one, the report written; after vt_ask returns, the record is
\* appended or the grader finds a fresh directory; and every step uses up one
\* of the finitely many steps left),
\* and the end is one report, written once, that holds a record for every
\* task, and exit status 0.
C19_FailuresNeverAbort ==
  /\ [](variant \in BenchVariants =>
         /\ Len(results) \in {ti - 1, ti}
         /\ ti <= ntasks
         /\ \A i \in 1..Len(results) : results[i].id = i
         /\ pc = "loop" => Len(results) = ti
         /\ pc = "crashed" => spawn_err
         /\ pc \notin {"done", "crashed"} => (exit_code = NoneNum /\ ~report.written)
         /\ pc \in {"call", "wait", "grade_wait"} =>
              ENABLED (Spawn \/ AskTimeout \/ GradeTimeout)
         /\ pc = "loop" => (ti = ntasks \/ ENABLED StartTask)
         /\ pc = "ret" =>
              (variant = "SWE" \/ ~ShouldGrade(variant, g) \/ mkdtemp(tmpdirs) # {})
         /\ pc = "done" =>
              /\ report.written
              /\ report.results = results
              /\ Len(results) = ntasks
              /\ report.summary.n = ntasks
              /\ exit_code = 0)
  /\ [][(variant \in BenchVariants) =>
          /\ RunStepsLeft' < RunStepsLeft
          /\ Len(results') >= Len(results)
          /\ SubSeq(results', 1, Len(results)) = results
          /\ (report.written => report' = report)]_allvars

C19_Witness ==
  /\ variant = "HE"
  /\ pc = "done"
  /\ exit_code = 0
  /\ Len(report.results) = 2
  /\ report.results[1].gen_timeout
  /\ report.results[2].err_tail = <<"timeout">>

\* C20: two runs never write the same report path, and the report of every
\* run that has written one is still the content of its path.
C20_ReportPathUnique ==
  /\ \A i, j \in 1..Len(runs) : i # j => runs[i].out_path # runs[j].out_path
  /\ \A i \in 1..Len(runs) :
       runs[i].out_path \in DOMAIN disk /\ disk[runs[i].out_path] = runs[i].run

\* the list rs rearranged by the permutation f of its positions
Rearranged(rs, f) == [i \in 1..Len(rs) |-> rs[f[i]]]
\* rs with the entries at positions i and i + 1 exchanged
Swapped(rs, i) ==
  [k \in 1..Len(rs) |-> IF k = i THEN rs[i + 1] ELSE IF k = i + 1 THEN rs[i] ELSE rs[k]]
\* rs backwards
Reversed(rs) == [k \in 1..Len(rs) |-> rs[Len(rs) + 1 - k]]

\* C21: the summary of a result list is the summary of every rearrangement
\* of it: of every permutation for the lists of fewer than MaxLats - 1
\* results, and for every list of the list backwards and of each exchange of
\* two neighbours (the exchanges from which every permutation is composed).
C21_OrderIndependent ==
  sdone =>
    /\ Report(svariant, Reversed(srs), sip, sop).summary = ssum
    /\ \A i \in 1..(Len(srs) - 1) :
         Report(svariant, Swapped(srs, i), sip, sop).summary = ssum
    /\ Len(srs) < MaxLats - 1 =>
         \A f \in Permutations(1..Len(srs)) :
           Report(svariant, Rearranged(srs, f), sip, sop).summary = ssum
C21_Witness ==
  /\ sdone
  /\ svariant \in {"HE", "MBPP"}
  /\ Len(srs) = 2
  /\ srs[1].latency_s # srs[2].latency_s
  /\ srs[1].passed # srs[2].passed
  /\ srs[1].gen_timeout # srs[2].gen_timeout
  /\ srs[1].usage # srs[2].usage
  /\ ssum.est_cost_usd # NoneNum

\* the '*_processed.txt' files of the results directory
ProcessedOutputs == {q \in wfs : q[1] = "results"}
\* input files named as the test names them: all exist, none holds "ms"
TestLikeInput ==
  \A i \in 1..Len(winput) : winput[i].exists /\ ~winput[i].ms

\* C22: for a list of existing input files the workflow runs plan, validate,
\* execute and verify in that order, returns True, and leaves exactly one
\* processed output per input file.
C22_WorkflowSucceeds ==
  (wpc = "done" /\ TestLikeInput) =>
    /\ wsteps = <<"plan", "validate", "execute", "verify">>
    /\ wret = "True"
    /\ ProcessedOutputs = {OutputPath(winput[i]) : i \in 1..Len(winput)}

\* a test subprocess is started by this step
TestStarted == Len(procs') > Len(procs) /\ Last(procs') = "test"
\* the record of a task whose test run timed out
GraderTimeoutRecord(v, r) ==
  /\ ~r.passed
  /\ r.test_time_s = TIMEOUT_S(v)
  /\ r.err_tail = <<"timeout">>

\* C23: a test subprocess that exceeds the timeout gives the task a failed
\* record with test time TIMEOUT_S and tail "timeout", the loop goes on to
\* the next task, and a test subprocess is started once per graded task.
C23_GraderTimeoutFinal ==
  /\ [](variant \in {"HE", "MBPP"} =>
          /\ Len(fed) \in {ti - 1, ti}
          /\ Len(fed) >= Len(results)
          /\ \A i \in 1..Len(results) :
               /\ fed[i].test = "timeout" => GraderTimeoutRecord(variant, results[i])
               /\ fed[i].test = "none" <=> results[i].test_time_s = NoneNum)
  /\ [][(variant \in {"HE", "MBPP"}) =>
          /\ TestStarted =>
               (Len(fed) = ti - 1 /\ Len(fed') = ti /\ fed'[ti].test = "running"
                  /\ pc' = "grade_wait")
          /\ (pc = "grade_wait" /\ fed'[ti].test = "timeout") =>
               (/\ pc' = "loop"
                /\ results' = Append(results, results'[ti])
                /\ GraderTimeoutRecord(variant, results'[ti])
                /\ procs' = <<>>)]_allvars
C23_Witness ==
  /\ variant \in {"HE", "MBPP"}
  /\ Len(results) = MaxTasks
  /\ fed[1].test = "timeout"
  /\ fed[1].agent = "solution"
  /\ GraderTimeoutRecord(variant, results[1])
  /\ fed[MaxTasks].test = "ok"
  /\ report.written

\* BACKOFF_MS * 2^(j-1), the sleep before the j-th retry, in milliseconds
RECURSIVE Pow2(_)
Pow2(k) == IF k = 0 THEN 1 ELSE 2 * Pow2(k - 1)
BackoffBefore(j) == BACKOFF_MS * Pow2(j - 1)
\* this step ends an attempt and goes round the loop of vt_ask again
Retried == Len(hist') = Len(hist) + 1 /\ pc' = "call"

\* C24: within one vt_ask call the sleep before the j-th retry is
\* BACKOFF_MS * 2^(j-1) milliseconds whether the attempt before it timed out
\* or ended rate-limited or with a non-zero exit code, and the backoff starts
\* again from BACKOFF_MS for the next task.
C24_ExponentialBackoff ==
  /\ [](variant \in BenchVariants =>
          /\ Len(sleeps) <= RETRY_MAX
          /\ \A j \in 1..Len(sleeps) : sleeps[j] = BackoffBefore(j)
          /\ pc \in {"call", "wait", "ret"} =>
               (Len(sleeps) = attempts /\ backoff = BackoffBefore(attempts + 1))
          /\ pc \in {"loop", "grade_wait"} => (sleeps = <<>> /\ backoff = BACKOFF_MS))
  /\ [][(variant \in BenchVariants) =>
          /\ Retried =>
               (/\ sleeps' = Append(sleeps, BackoffBefore(Len(sleeps) + 1))
                /\ Last(hist').kind = "timeout"
                      \/ NeedsRetry(Last(hist').rc, Last(hist').out))
          /\ ti' # ti => (sleeps' = <<>> /\ backoff' = BACKOFF_MS)]_allvars
C24_Witness ==
  /\ variant \in BenchVariants
  /\ ti = 2
  /\ Len(results) = 1
  /\ pc = "ret"
  /\ sleeps = <<BACKOFF_MS, 2 * BACKOFF_MS>>
  /\ hist[1].kind = "timeout"
  /\ RateLimitedAttempt(hist[2])

\* what the judge answers on the binary scale, or "error"
BinaryVerdicts == {<<"correct">>, <<"in", "correct">>, <<"error">>}

\* C25: a case graded by the LLM judge on the binary scale is passed only
\* when the judge's result is "correct"; "incorrect" and "error" give
\* passed = false.
C25_GraderVerdictMapping ==
  variant = "EVAL" =>
    \A i \in 1..Len(results) :
      ("grade" \in DOMAIN results[i] /\ results[i].grade \in BinaryVerdicts) =>
        (results[i].passed <=> results[i].grade = <<"correct">>)

\* C26: vt_ask returns timed_out = true exactly when the last attempt it
\* made timed out: after earlier timeouts a last attempt that produced output
\* is returned with timed_out = false, its output and its latency, and after
\* earlier rate-limited attempts a last attempt that timed out gives the
\* timeout sentinel.
C26_TimeoutFlagHonest ==
  (variant \in BenchVariants /\ pc = "ret") =>
    /\ hist # <<>>
    /\ g.timed_out <=> Last(hist).kind = "timeout"
    /\ Last(hist).kind = "timeout" => g = TimeoutResult(variant)
    /\ Last(hist).kind = "exit" =>
         (g.stdout = Last(hist).out /\ g.latency_s = Last(hist).dt)
C26_Witness ==
  /\ variant \in BenchVariants
  /\ pc = "ret"
  /\ Len(hist) = RETRY_MAX + 1
  /\ hist[1].kind = "timeout"
  /\ Last(hist).kind = "exit"
  /\ Last(hist).out # <<>>
  /\ ~g.timed_out
C26_WitnessLastTimedOut ==
  /\ variant \in BenchVariants
  /\ pc = "ret"
  /\ RateLimitedAttempt(hist[1])
  /\ Last(hist).kind = "timeout"
  /\ g.timed_out

\* the results whose generation did not time out
Measured(rs) == SelectSeq(rs, LAMBDA r : ~TimedOutFlag(r))
\* the results that carry the sentinel: timed out, latency TIMEOUT_S
Sentinels(v, rs) ==
  {i \in 1..Len(rs) : TimedOutFlag(rs[i]) /\ rs[i].latency_s = TIMEOUT_S(v)}
\* x is the latency of a result of rs that did not time out
MeasuredLatency(rs, x) ==
  \E i \in 1..Len(rs) : ~TimedOutFlag(rs[i]) /\ rs[i].latency_s = x

\* C27: the latency of a result whose generation timed out does not enter
\* p50 or p90: the percentiles are those of the list without the timed-out
\* results; when every task timed out both are None, and otherwise
\* p50 <= p90 and both are latencies of tasks that did not time out.
C27_SentinelExcluded ==
  sdone =>
    /\ ssum.latency_p50_s = Report(svariant, Measured(srs), sip, sop).summary.latency_p50_s
    /\ ssum.latency_p90_s = Report(svariant, Measured(srs), sip, sop).summary.latency_p90_s
    /\ Measured(srs) = <<>> =>
         (ssum.latency_p50_s = NoneNum /\ ssum.latency_p90_s = NoneNum)
    /\ Measured(srs) # <<>> =>
         /\ ssum.latency_p50_s <= ssum.latency_p90_s
         /\ MeasuredLatency(srs, ssum.latency_p50_s)
         /\ MeasuredLatency(srs, ssum.latency_p90_s)
C27_Witness ==
  /\ sdone
  /\ Len(srs) = MaxLats
  /\ Cardinality(Sentinels(svariant, srs)) = MaxLats - 2
  /\ Len(Measured(srs)) = 2
  /\ ssum.latency_p50_s = 1
  /\ ssum.latency_p90_s = 4
C27_WitnessAllTimedOut ==
  /\ sdone
  /\ Len(srs) = MaxLats
  /\ Sentinels(svariant, srs) = 1..MaxLats
  /\ ssum.latency_p50_s = NoneNum

\* the record of a task whose invocation result carried a non-zero exit code
GenErrorRecord(r) ==
  /\ r.gen_error = r.rc
  /\ ~r.passed
  /\ r.test_time_s = NoneNum

\* C28: in the HumanEval driver a task whose invocation result carries a
\* non-zero exit code, the 124 of the timeout sentinel included, gets
\* gen_error set, passed false and no test time, and on the way to its record
\* no code is extracted for the grader, no sandbox is made and no test
\* process is started.
C28_GenErrorNotGraded ==
  /\ [](variant = "HE" =>
          \A i \in 1..Len(results) :
            /\ results[i].rc # 0 =>
                 (GenErrorRecord(results[i]) /\ fed[i].test = "none")
            /\ results[i].rc = 0 => results[i].gen_error = NoneNum)
  /\ [][(variant = "HE" /\ pc = "ret" /\ g.rc # 0) =>
          (/\ results' = Append(results, results'[ti])
           /\ GenErrorRecord(results'[ti])
           /\ results'[ti].rc = g.rc
           /\ graded' = NotGraded
           /\ procs' = procs
           /\ tmpdirs' = tmpdirs
           /\ pc' = "loop")]_allvars
C28_Witness ==
  /\ variant = "HE"
  /\ Len(results) = 2
  /\ results[1].rc = 124
  /\ results[1].gen_timeout
  /\ results[1].gen_error = 124
  /\ results[2].rc = 1
  /\ ~results[2].gen_timeout
  /\ results[2].gen_error = 1

\* the attempt outcome o asks for a retry
AsksRetry(o) == o.kind = "timeout" \/ NeedsRetry(o.rc, o.out)
\* h is the outcome sequence of a whole call: every attempt but the last
\* asked for a retry, and the last did not or no retry was left
WholeCall(h) ==
  /\ Len(h) \in 1..(RETRY_MAX + 1)
  /\ \A j \in 1..(Len(h) - 1) : AsksRetry(h[j])
  /\ Len(h) = RETRY_MAX + 1 \/ ~AsksRetry(Last(h))
\* what the retry loop does and returns for the outcome sequence h under
\* the timeout t: one description for the three scripts
LoopOutcome(h, t) ==
  [attempts |-> Len(h),
   sleeps |-> [j \in 1..(Len(h) - 1) |-> BackoffBefore(j)],
   timed_out |-> Last(h).kind = "timeout",
   latency_s |-> IF Last(h).kind = "timeout" THEN t ELSE Last(h).dt,
   text |-> IF Last(h).kind = "timeout" THEN <<>> ELSE Last(h).out]

\* C29: the number of attempts, the sleeps, the timed-out flag, the latency
\* and the output text of a vt_ask call are one function of the sequence of
\* attempt outcomes and the timeout, the same for the HumanEval, MBPP and
\* SWE-Lite scripts.
C29_VariantEquivalence ==
  (variant \in BenchVariants /\ pc = "ret") =>
    /\ WholeCall(hist)
    /\ [attempts |-> spawned, sleeps |-> sleeps, timed_out |-> g.timed_out,
        latency_s |-> g.latency_s, text |-> g.stdout]
         = LoopOutcome(hist, TIMEOUT_S(variant))
C29_Witness ==
  /\ variant = "SWE"
  /\ pc = "ret"
  /\ Len(hist) = RETRY_MAX + 1
  /\ hist[1].kind = "timeout"
  /\ hist[2].kind = "exit" /\ hist[2].rc # 0
  /\ Last(hist).kind = "exit" /\ Last(hist).rc # 0
  /\ sleeps = <<BACKOFF_MS, 2 * BACKOFF_MS>>
  /\ ~g.timed_out

\* the lines read that are requests: JSON objects with an id
RequestsRead == SelectSeq(mlines, LAMBDA l : l.kind = "object" /\ l.id # NoneNum)

\* C30: whatever the input lines, the responses written are one per
\* request read, with the request's id, in the order the requests were read;
\* lines without an id, blank lines and lines that are not JSON give no
\* output; and no line ends the server before its input ends.
C30_RequestResponseMatching ==
  /\ mpc # "crashed"
  /\ Len(mstdout) = Len(RequestsRead)
  /\ \A i \in 1..Len(mstdout) : mstdout[i].id = RequestsRead[i].id
  /\ mpc = "eof" => mstdin = <<>>
====
